---- MODULE Spec2Model ----
(***************************************************************************)
(* BiliDownloader: the QR login driver with its credential cache           *)
(* (login.py) and the three-tier resilient GET (utils.py, _safe_get).      *)
(***************************************************************************)
EXTENDS Integers, Sequences, FiniteSets, TLC

\* ------------------------------------------------------------------ bounds
MaxStamp == 1       \* wall-clock stamps 0..MaxStamp for "now" and expiries
MaxWindows == 3     \* QR sessions requested in one run of login()
MaxPolls == 4       \* polls issued in one poll_login window
MaxReps == 2        \* representations listed in a dash video or audio list

\* ------------------------------------------------------- program constants
Timeout == 180          \* poll_login(timeout=180)
Interval == 2           \* poll_login(interval=2)
NOT_SCANNED == 86101
SCANNED == 86090
QR_EXPIRED == 86038
QR_OK == 0
RetryTotal == 3         \* Retry(total=3) of the shared session

Names == <<"SESSDATA", "bili_jct", "DedeUserID">>
NameSet == {Names[i] : i \in 1..3}
Stamps == 0..MaxStamp

\* --------------------------------------------------- credential file model
NoExpiry == [tag |-> "none", at |-> 0]
BadExpiry == [tag |-> "bad", at |-> 0]
ExpiresAt(t) == [tag |-> "at", at |-> t]
Expiries == {NoExpiry, BadExpiry} \cup {ExpiresAt(t) : t \in Stamps}

MissingField == [tag |-> "missing", value |-> "None", expires |-> NoExpiry]
Field(v, e) == [tag |-> "ok", value |-> v, expires |-> e]
FileFields == {MissingField, Field("None", NoExpiry)} \cup {Field("old", e) : e \in Expiries}

NoData == [n \in NameSet |-> MissingField]
NoFile == [kind |-> "absent", data |-> NoData]
CorruptFile == [kind |-> "corrupt", data |-> NoData]
FalsyJson == [kind |-> "falsy", data |-> NoData]
JsonFile(d) == [kind |-> "json", data |-> d]
\* a field as login() writes it for a cookie it found
WellFormed(f) == f.tag = "ok" /\ f.value # "None" /\ f.expires.tag # "bad"
\* the files a run may find: none, an unparseable one, a falsy JSON value,
\* the three fields with at most one of them missing, valueless or with an
\* unparseable expiry, and the file of a login that found no cookie at all
Files ==
    {NoFile, CorruptFile, FalsyJson}
    \cup {JsonFile(d) : d \in {x \in [NameSet -> FileFields] :
                                  Cardinality({n \in NameSet : ~WellFormed(x[n])}) <= 1}}
    \cup {JsonFile([n \in NameSet |-> Field("None", NoExpiry)])}

NoResult == [kind |-> "none", data |-> NoData]

\* ------------------------------------------------------------- cookie jar
PlatformDomain == ".bilibili.com"
OtherDomain == ".biligame.com"
Cookie(n, d, v, e) == [name |-> n, domain |-> d, value |-> v, expires |-> e]

\* -------------------------------------------- utils.py: pages and manifests
\* sequences of length 0..n over the set S
RECURSIVE SeqsUpTo(_, _)
SeqsUpTo(S, n) ==
    IF n = 0 THEN {<<>>}
    ELSE LET shorter == SeqsUpTo(S, n - 1)
         IN shorter \cup {Append(q, x) : q \in {t \in shorter : Len(t) = n - 1}, x \in S}

\* a list of the manifest: the key may be missing; an item is the baseUrl of
\* the representation, "None" for a representation without baseUrl
NoList == [tag |-> "missing", items |-> <<>>]
List(q) == [tag |-> "list", items |-> q]
VideoLists == {NoList, List(<<"None">>)} \cup {List(q) : q \in SeqsUpTo({"V1", "V2"}, MaxReps)}
AudioLists == {NoList, List(<<"None">>)} \cup {List(q) : q \in SeqsUpTo({"A1", "A2"}, MaxReps)}
QualityLists == {NoList, List(<<120, 80, 64>>), List(<<64, 120>>)}

\* resp.text of the video page: without the window.__playinfo__ marker, with
\* a blob json.loads rejects, or with a manifest (data.dash may be missing)
Page(k, d, v, a, q) == [kind |-> k, dash |-> d, video |-> v, audio |-> a, quals |-> q]
NoPage == Page("none", FALSE, NoList, NoList, NoList)
Pages ==
    {Page("nomarker", FALSE, NoList, NoList, NoList),
     Page("badjson", FALSE, NoList, NoList, NoList)}
    \cup {Page("ok", FALSE, NoList, NoList, q) : q \in QualityLists}
    \cup {Page("ok", TRUE, v, a, q) : v \in VideoLists, a \in AudioLists, q \in QualityLists}

Bvids == {"BV1xx411c7mD"}
NoMedia ==
    [kind |-> "none", title |-> "none", video_url |-> "None", audio_url |-> "None",
     accept_quality |-> <<>>,
     get_video_infos |-> [bvid |-> "none", title |-> "none", video_url |-> "None"],
     get_audio_infos |-> [bvid |-> "none", title |-> "none", audio_url |-> "None"]]
NoView == [status |-> "none", data |-> FALSE, aid |-> "None", cid |-> "None"]
NoIds == [st |-> "none", aid |-> "None", cid |-> "None"]
NoReq ==
    [url |-> "none", tier |-> 0, client |-> "none", headers |-> "none",
     verify |-> FALSE, retries |-> 0, cookies |-> {}]

VARIABLES pc, file, nowStamp, jar, key, srvKey, genCount, pollKey, pollCount,
          elapsed, trace, timeouts, confirms, lastResp, result, err,
          fileWrites,
          fpc, outs, e1, e2, fresult, ferr, furl, lastReq,
          rpc, bvid, creds, html, video_url, audio_url, qualities, title,
          media, rerr, idsOut, viewResp

vars == <<pc, file, nowStamp, jar, key, srvKey, genCount, pollKey, pollCount,
          elapsed, trace, timeouts, confirms, lastResp, result, err,
          fileWrites,
          fpc, outs, e1, e2, fresult, ferr, furl, lastReq,
          rpc, bvid, creds, html, video_url, audio_url, qualities, title,
          media, rerr, idsOut, viewResp>>

loginVars == <<pc, file, nowStamp, jar, key, srvKey, genCount, pollKey,
               pollCount, elapsed, trace, timeouts, confirms, lastResp,
               result, err, fileWrites>>
fetchVars == <<fpc, outs, e1, e2, fresult, ferr, furl, lastReq>>
resolveVars == <<rpc, bvid, creds, html, video_url, audio_url, qualities,
                 title, media, rerr, idsOut, viewResp>>

\* ------------------------------------------------- login.py: cache check
\* variant: every exception of open/json.load is taken for a missing file
ParseLoginInfo_CatchAll(f) ==
    CASE f.kind \in {"absent", "corrupt"} -> [st |-> "none", data |-> NoData]
      [] f.kind = "falsy" -> [st |-> "falsy", data |-> NoData]
      [] OTHER -> [st |-> "dict", data |-> f.data]

\* parse_login_info: FileNotFoundError is the only exception it catches.
ParseLoginInfo(f) ==
    CASE f.kind = "absent" -> [st |-> "none", data |-> NoData]
      [] f.kind = "corrupt" -> [st |-> "raise", data |-> NoData]
      [] f.kind = "falsy" -> [st |-> "falsy", data |-> NoData]
      [] OTHER -> [st |-> "dict", data |-> f.data]

\* variant: the expiry is parsed but never compared
NotExpired_Always(t, now) == TRUE

\* the comparison of login(): parse_utc(expires) > now
NotExpired(t, now) == t > now

\* all(... for name in Names if expires is not None), evaluated lazily in
\* the order of Names: "true", "false", or "raise" (KeyError / ValueError).
RECURSIVE AllOk(_, _, _)
AllOk(info, now, i) ==
    IF i > Len(Names) THEN "true"
    ELSE LET f == info[Names[i]] IN
         CASE f.tag = "missing" -> "raise"
           [] f.expires.tag = "none" -> AllOk(info, now, i + 1)
           [] f.expires.tag = "bad" -> "raise"
           [] OTHER -> IF NotExpired(f.expires.at, now)
                       THEN AllOk(info, now, i + 1)
                       ELSE "false"

\* RequestsCookieJar.set(name, None) removes the cookies of that name;
\* otherwise it stores a cookie with an empty domain and no expiry.
RECURSIVE JarUpdate(_, _, _)
JarUpdate(j, info, i) ==
    IF i > Len(Names) THEN j
    ELSE LET n == Names[i]
             v == info[n].value
             j1 == IF v = "None"
                   THEN {c \in j : c.name # n}
                   ELSE {c \in j : ~(c.name = n /\ c.domain = "")}
                        \cup {Cookie(n, "", v, NoExpiry)}
         IN JarUpdate(j1, info, i + 1)

\* variant: the expiry check runs outside any try block
CacheDecision_NoTry(f, now) ==
    LET p == ParseLoginInfo(f) IN
    CASE p.st = "raise" -> "raise"
      [] p.st \in {"none", "falsy"} -> "qr"
      [] AllOk(p.data, now, 1) = "raise" -> "raise"
      [] OTHER -> IF AllOk(p.data, now, 1) = "true" THEN "hit" ELSE "qr"

\* what login() does with the outcome of the cache check
CacheDecision(f, now) ==
    LET p == ParseLoginInfo(f) IN
    CASE p.st = "raise" -> "raise"
      [] p.st \in {"none", "falsy"} -> "qr"
      [] OTHER -> IF AllOk(p.data, now, 1) = "true" THEN "hit" ELSE "qr"

LoginFrame == UNCHANGED <<key, srvKey, genCount, pollKey, pollCount,
                          elapsed, trace, timeouts, confirms, lastResp,
                          fileWrites, nowStamp>>

CacheHit ==
    /\ pc = "start"
    /\ CacheDecision(file, nowStamp) = "hit"
    /\ jar' = JarUpdate(jar, file.data, 1)
    /\ result' = JsonFile(file.data)
    /\ pc' = "returned"
    /\ UNCHANGED <<file, err>>
    /\ LoginFrame
    /\ UNCHANGED <<fetchVars, resolveVars>>

CacheMiss ==
    /\ pc = "start"
    /\ CacheDecision(file, nowStamp) = "qr"
    /\ pc' = "REQUESTING"
    /\ UNCHANGED <<file, jar, result, err>>
    /\ LoginFrame
    /\ UNCHANGED <<fetchVars, resolveVars>>

CacheCorrupt ==
    /\ pc = "start"
    /\ CacheDecision(file, nowStamp) = "raise"
    /\ pc' = "raised"
    /\ err' = "JSONDecodeError"
    /\ UNCHANGED <<file, jar, result>>
    /\ LoginFrame
    /\ UNCHANGED <<fetchVars, resolveVars>>

\* ------------------------------------------- login.py: QR login requests
NoResp == [kind |-> "none"]
NetErr == [kind |-> "neterr"]
AppErr(c) == [kind |-> "apperr", code |-> c]
Status(s) == [kind |-> "ok", code |-> 0, status |-> s]
BadAppCodes == {-412}
UnknownStatuses == {86039}
QrIssued == [kind |-> "qr", code |-> 0]
GenResponses == {NetErr, QrIssued} \cup {AppErr(c) : c \in BadAppCodes}
PollResponses == {NetErr} \cup {AppErr(c) : c \in BadAppCodes}
                 \cup {Status(s) : s \in {NOT_SCANNED, SCANNED, QR_EXPIRED, QR_OK} \cup UnknownStatuses}

\* time a poll round trip may take, in seconds
Delays == {0, Timeout}

\* get_qr_login: "ok", or the exception that leaves it
GenOutcome(r) ==
    CASE r.kind = "neterr" -> "RequestException"
      [] r.kind = "apperr" -> "RuntimeError"
      [] OTHER -> IF r.code # 0 THEN "RuntimeError" ELSE "ok"

\* variant: the key of the first QR session is kept for later windows
PollLoginArg_Stale(newKey, oldKey) == IF oldKey # 0 THEN oldKey ELSE newKey

\* the key login() hands to poll_login: the one get_qr_login just returned
PollLoginArg(newKey, oldKey) == newKey

\* login(): get_qr_login() is called outside the try block
Generate ==
    /\ pc = "REQUESTING"
    /\ genCount < MaxWindows
    /\ \E r \in GenResponses :
         /\ lastResp' = r
         /\ genCount' = genCount + 1
         /\ IF GenOutcome(r) = "ok"
            THEN /\ srvKey' = srvKey + 1
                 /\ key' = srvKey'
                 /\ pollKey' = PollLoginArg(key', key)
                 /\ pollCount' = 0
                 /\ elapsed' = 0
                 /\ trace' = <<>>
                 /\ pc' = "polling"
                 /\ err' = err
            ELSE /\ pc' = "raised"
                 /\ err' = GenOutcome(r)
                 /\ UNCHANGED <<srvKey, key, pollKey, pollCount, elapsed, trace>>
    /\ UNCHANGED <<file, nowStamp, jar, timeouts, confirms, result, fileWrites>>
    /\ UNCHANGED <<fetchVars, resolveVars>>

\* the state of the QR machine a poll status stands for
StateOf(s) ==
    CASE s = NOT_SCANNED -> "AWAITING_SCAN"
      [] s = SCANNED -> "SCANNED_PENDING_CONFIRM"
      [] s = QR_EXPIRED -> "EXPIRED"
      [] s = QR_OK -> "CONFIRMED"
      [] OTHER -> "FATAL"

\* variant: status 0 is not recognised
PollOutcome_NoConfirm(r, el) ==
    CASE r.kind = "neterr" -> "fatal"
      [] r.kind = "apperr" -> "fatal"
      [] r.code # 0 -> "fatal"
      [] r.status \in {NOT_SCANNED, SCANNED} ->
            IF el >= Timeout THEN "timeout" ELSE "continue"
      [] r.status = QR_EXPIRED -> "expired"
      [] OTHER -> "fatal"

\* variant: the window is left only when elapsed exceeds the timeout
PollOutcome_StrictlyLater(r, el) ==
    CASE r.kind = "neterr" -> "fatal"
      [] r.kind = "apperr" -> "fatal"
      [] r.code # 0 -> "fatal"
      [] r.status \in {NOT_SCANNED, SCANNED} ->
            IF el > Timeout THEN "timeout" ELSE "continue"
      [] r.status = QR_EXPIRED -> "expired"
      [] r.status = QR_OK -> "confirmed"
      [] OTHER -> "fatal"

\* one iteration of the poll loop, after the response arrived
PollOutcome(r, el) ==
    CASE r.kind = "neterr" -> "fatal"
      [] r.kind = "apperr" -> "fatal"
      [] r.code # 0 -> "fatal"
      [] r.status \in {NOT_SCANNED, SCANNED} ->
            IF el >= Timeout THEN "timeout" ELSE "continue"
      [] r.status = QR_EXPIRED -> "expired"
      [] r.status = QR_OK -> "confirmed"
      [] OTHER -> "fatal"

\* variant: the second TimeoutError is re-raised to the caller
DriverNext_RetryOnce(outcome, t) ==
    CASE outcome = "confirmed" -> "CONFIRMED"
      [] outcome = "expired" -> "REQUESTING"
      [] outcome = "timeout" -> IF t >= 1 THEN "raised" ELSE "REQUESTING"
      [] OTHER -> "exited"

\* variant: every exception of poll_login restarts the loop
DriverNext_RetryAll(outcome, t) ==
    CASE outcome = "confirmed" -> "CONFIRMED"
      [] OTHER -> "REQUESTING"

\* login(): what the driver loop does with the way poll_login ended
DriverNext(outcome, t) ==
    CASE outcome = "confirmed" -> "CONFIRMED"
      [] outcome = "expired" -> "REQUESTING"
      [] outcome = "timeout" -> "REQUESTING"
      [] OTHER -> "exited"

\* cookies the confirmation URL may set
ConfirmCookies ==
    {{Cookie(n, PlatformDomain, "new", e) : n \in S} :
        S \in {NameSet, NameSet \ {"SESSDATA"}, {}},
        e \in {NoExpiry, ExpiresAt(MaxStamp)}}
    \cup {{Cookie(n, OtherDomain, "new", ExpiresAt(MaxStamp)) : n \in NameSet}}

SetCookies(j, cs) ==
    {c \in j : ~\E c2 \in cs : c2.name = c.name /\ c2.domain = c.domain} \cup cs

\* int(time.time() - start) after a round trip of d seconds: the first poll
\* follows start at once, a later one the sleep of the iteration before
Elapsed(d) == IF pollCount = 0 THEN d ELSE elapsed + Interval + d

PollFrame == UNCHANGED <<nowStamp, key, srvKey, genCount, pollKey>>
\* variant: the file is opened for writing before the outcome is known
NoWrite_Truncate == file' = CorruptFile /\ UNCHANGED <<result, fileWrites>>
NoWrite == UNCHANGED <<file, result, fileWrites>>

\* a poll answered 86101 or 86090 within the window: print, sleep, loop
PollContinue ==
    /\ pc = "polling"
    /\ pollCount < MaxPolls
    /\ \E r \in PollResponses, d \in Delays :
         /\ PollOutcome(r, Elapsed(d)) = "continue"
         /\ lastResp' = r
         /\ trace' = Append(trace, r.status)
         /\ elapsed' = Elapsed(d)
    /\ pollCount' = pollCount + 1
    /\ pc' = "polling"
    /\ UNCHANGED <<jar, timeouts, confirms, err>>
    /\ PollFrame
    /\ NoWrite
    /\ UNCHANGED <<fetchVars, resolveVars>>

\* a poll answered 86101 or 86090 with elapsed >= timeout: TimeoutError
PollTimeout ==
    /\ pc = "polling"
    /\ pollCount < MaxPolls
    /\ \E r \in PollResponses, d \in Delays :
         /\ PollOutcome(r, Elapsed(d)) = "timeout"
         /\ lastResp' = r
         /\ trace' = Append(trace, r.status)
         /\ elapsed' = Elapsed(d)
    /\ pollCount' = pollCount + 1
    /\ timeouts' = timeouts + 1
    /\ pc' = DriverNext("timeout", timeouts)
    /\ err' = IF pc' = "raised" THEN "TimeoutError" ELSE err
    /\ UNCHANGED <<jar, confirms>>
    /\ PollFrame
    /\ NoWrite
    /\ UNCHANGED <<fetchVars, resolveVars>>

\* a poll answered 86038: poll_login returns False
PollExpired ==
    /\ pc = "polling"
    /\ pollCount < MaxPolls
    /\ \E r \in PollResponses, d \in Delays :
         /\ PollOutcome(r, Elapsed(d)) = "expired"
         /\ lastResp' = r
         /\ trace' = Append(trace, r.status)
         /\ elapsed' = Elapsed(d)
    /\ pollCount' = pollCount + 1
    /\ pc' = DriverNext("expired", timeouts)
    /\ UNCHANGED <<jar, timeouts, confirms, err>>
    /\ PollFrame
    /\ NoWrite
    /\ UNCHANGED <<fetchVars, resolveVars>>

\* extract_login_cookies_with_expiry
DomainMatches(d) == d = PlatformDomain
Extract(j) ==
    [n \in NameSet |->
        IF \E c \in j : c.name = n /\ DomainMatches(c.domain)
        THEN LET c == CHOOSE c \in j : c.name = n /\ DomainMatches(c.domain)
             IN Field(c.value, c.expires)
        ELSE Field("None", NoExpiry)]

\* a poll answered 0: the confirmation URL is requested and poll_login
\* returns True; login() leaves its loop, extracts the cookies, writes the
\* file and returns.  An exception of the confirmation request ends in the
\* driver's exit(1).
PollConfirmed ==
    /\ pc = "polling"
    /\ pollCount < MaxPolls
    /\ \E r \in PollResponses, d \in Delays :
         /\ PollOutcome(r, Elapsed(d)) = "confirmed"
         /\ lastResp' = r
         /\ trace' = Append(trace, r.status)
         /\ elapsed' = Elapsed(d)
    /\ pollCount' = pollCount + 1
    /\ confirms' = confirms + 1
    /\ \/ \E cs \in ConfirmCookies :
            /\ jar' = SetCookies(jar, cs)
            /\ IF DriverNext("confirmed", timeouts) = "CONFIRMED"
               THEN /\ file' = JsonFile(Extract(jar'))
                    /\ result' = JsonFile(Extract(jar'))
                    /\ fileWrites' = fileWrites + 1
                    /\ pc' = "returned"
               ELSE /\ pc' = DriverNext("confirmed", timeouts)
                    /\ NoWrite
            /\ err' = err
       \/ /\ jar' = jar
          /\ pc' = DriverNext("fatal", timeouts)
          /\ err' = "RequestException"
          /\ NoWrite
    /\ UNCHANGED timeouts
    /\ PollFrame
    /\ UNCHANGED <<fetchVars, resolveVars>>

\* transport error, non-zero top-level code or unknown status: the exception
\* reaches the driver's "except Exception" and the process exits
PollFatal ==
    /\ pc = "polling"
    /\ pollCount < MaxPolls
    /\ \E r \in PollResponses, d \in Delays :
         /\ PollOutcome(r, Elapsed(d)) = "fatal"
         /\ lastResp' = r
         /\ trace' = IF r.kind = "ok" THEN Append(trace, r.status) ELSE trace
         /\ elapsed' = IF r.kind = "ok" THEN Elapsed(d) ELSE elapsed
         /\ err' = IF r.kind = "neterr" THEN "RequestException" ELSE "RuntimeError"
    /\ pollCount' = pollCount + 1
    /\ pc' = DriverNext("fatal", timeouts)
    /\ UNCHANGED <<jar, timeouts, confirms>>
    /\ PollFrame
    /\ NoWrite
    /\ UNCHANGED <<fetchVars, resolveVars>>

\* --------------------------------------------------- specification: login
FetchIdle ==
    /\ fpc = "idle"
    /\ outs = <<>>
    /\ e1 = [kind |-> "none", msg |-> "none", body |-> "none"]
    /\ e2 = [kind |-> "none", msg |-> "none", body |-> "none"]
    /\ fresult = [tier |-> 0, body |-> "none"]
    /\ ferr = [kind |-> "none", msg |-> "none", parts |-> <<>>]
    /\ furl = "none"
    /\ lastReq = NoReq

ResolveIdle ==
    /\ rpc = "idle"
    /\ bvid = "none"
    /\ creds = [n \in NameSet |-> "None"]
    /\ html = NoPage
    /\ video_url = "None"
    /\ audio_url = "None"
    /\ qualities = <<>>
    /\ title = "none"
    /\ media = NoMedia
    /\ rerr = "none"
    /\ idsOut = NoIds
    /\ viewResp = NoView

Init ==
    /\ pc = "start"
    /\ file \in Files
    /\ nowStamp \in Stamps
    /\ jar = {}
    /\ key = 0
    /\ srvKey = 0
    /\ genCount = 0
    /\ pollKey = 0
    /\ pollCount = 0
    /\ elapsed = 0
    /\ trace = <<>>
    /\ timeouts = 0
    /\ confirms = 0
    /\ lastResp = NoResp
    /\ result = NoResult
    /\ err = "none"
    /\ fileWrites = 0
    /\ FetchIdle
    /\ ResolveIdle

Next ==
    \/ CacheHit
    \/ CacheMiss
    \/ CacheCorrupt
    \/ Generate
    \/ PollContinue
    \/ PollTimeout
    \/ PollExpired
    \/ PollConfirmed
    \/ PollFatal

Spec == Init /\ [][Next]_vars

\* ------------------------------------------------- utils.py: _safe_get
\* what session.get + raise_for_status of one tier can end in: a response,
\* or an exception of one of these classes:
\*   ssl      requests.exceptions.SSLError (a RequestException)
\*   maxretry urllib3.exceptions.MaxRetryError (not a RequestException)
\*   reqexc   another RequestException (ConnectionError, Timeout, ...)
\*   http     requests.exceptions.HTTPError of raise_for_status
\*   other    an Exception outside these hierarchies (ValueError, ...)
\*   base     a BaseException that is not an Exception (KeyboardInterrupt)
ExcKinds == {"ssl", "maxretry", "reqexc", "http", "other", "base"}
Msgs == {"m1", "m2"}
Bodies == {"b1", "b2"}
Ok(b) == [kind |-> "ok", msg |-> "none", body |-> b]
Exc(k, m) == [kind |-> k, msg |-> m, body |-> "none"]
At(t, o) == [tier |-> t, kind |-> o.kind, msg |-> o.msg, body |-> o.body]
TierOutcomes == {Ok(b) : b \in Bodies} \cup {Exc(k, m) : k \in ExcKinds, m \in Msgs}

IsRequestException(k) == k \in {"ssl", "reqexc", "http"}
IsException(k) == k \in ExcKinds \ {"base"}

\* variants of the except clause of tiers 1 and 2
Catches12_AnyException(k) == IsException(k)
Catches12_NoSSL(k) == k = "maxretry" \/ k = "reqexc" \/ k = "http"

\* except (SSLError, MaxRetryError, RequestException) of tiers 1 and 2
Catches12(k) == k = "ssl" \/ k = "maxretry" \/ IsRequestException(k)
\* except Exception of tier 3
Catches3(k) == IsException(k)

Propagated(o) == [kind |-> o.kind, msg |-> o.msg, parts |-> <<>>]
\* variant: the message of tier 2 printed under the label of tier 1 as well
Aggregate_Tier2Twice(x1, x2, x3) ==
    [kind |-> "RuntimeError", msg |-> "all three attempts failed",
     parts |-> <<[label |-> 1, msg |-> x2.msg],
                 [label |-> 2, msg |-> x2.msg],
                 [label |-> 3, msg |-> x3.msg]>>]

\* the RuntimeError of tier 3: the three messages under their tier labels
Aggregate(x1, x2, x3) ==
    [kind |-> "RuntimeError", msg |-> "all three attempts failed",
     parts |-> <<[label |-> 1, msg |-> x1.msg],
                 [label |-> 2, msg |-> x2.msg],
                 [label |-> 3, msg |-> x3.msg]>>]

\* cookies of the jar a request to www/api.bilibili.com carries: those of
\* the platform domain and those stored without a domain
Sent(j) ==
    {[name |-> c.name, value |-> c.value] : c \in {x \in j : x.domain \in {"", PlatformDomain}}}

\* variant: the fresh client is given the cookies of the shared one
FreshCookies_CopyJar(j) == Sent(j)

\* cookies of requests.Session(): headers are copied, the jar starts empty
FreshCookies(j) == {}

\* the request a tier sends
Request(u, t) ==
    [url |-> u, tier |-> t,
     client |-> IF t = 3 THEN "fresh" ELSE "shared",
     headers |-> "shared",
     verify |-> (t = 1),
     retries |-> IF t = 3 THEN 0 ELSE RetryTotal,
     cookies |-> IF t = 3 THEN FreshCookies(jar) ELSE Sent(jar)]

\* tier 1: session.get(url, **kwargs)
Tier1 ==
    /\ fpc = "tier1"
    /\ \E o \in TierOutcomes :
         /\ outs' = Append(outs, At(1, o))
         /\ CASE o.kind = "ok" ->
                   /\ fresult' = [tier |-> 1, body |-> o.body]
                   /\ fpc' = "returned"
                   /\ UNCHANGED <<e1, e2, ferr>>
              [] o.kind # "ok" /\ Catches12(o.kind) ->
                   /\ e1' = o
                   /\ fpc' = "tier2"
                   /\ UNCHANGED <<e2, fresult, ferr>>
              [] OTHER ->
                   /\ ferr' = Propagated(o)
                   /\ fpc' = "raised"
                   /\ UNCHANGED <<e1, e2, fresult>>
    /\ lastReq' = Request(furl, 1)
    /\ UNCHANGED <<loginVars, furl, resolveVars>>

\* tier 2: session.get(url, verify=False, ...)
Tier2 ==
    /\ fpc = "tier2"
    /\ \E o \in TierOutcomes :
         /\ outs' = Append(outs, At(2, o))
         /\ CASE o.kind = "ok" ->
                   /\ fresult' = [tier |-> 2, body |-> o.body]
                   /\ fpc' = "returned"
                   /\ UNCHANGED <<e1, e2, ferr>>
              [] o.kind # "ok" /\ Catches12(o.kind) ->
                   /\ e2' = o
                   /\ fpc' = "tier3"
                   /\ UNCHANGED <<e1, fresult, ferr>>
              [] OTHER ->
                   /\ ferr' = Propagated(o)
                   /\ fpc' = "raised"
                   /\ UNCHANGED <<e1, e2, fresult>>
    /\ lastReq' = Request(furl, 2)
    /\ UNCHANGED <<loginVars, furl, resolveVars>>

\* tier 3: requests.Session() with the shared headers, verify=False
Tier3 ==
    /\ fpc = "tier3"
    /\ \E o \in TierOutcomes :
         /\ outs' = Append(outs, At(3, o))
         /\ CASE o.kind = "ok" ->
                   /\ fresult' = [tier |-> 3, body |-> o.body]
                   /\ fpc' = "returned"
                   /\ UNCHANGED <<e1, e2, ferr>>
              [] o.kind # "ok" /\ Catches3(o.kind) ->
                   /\ ferr' = Aggregate(e1, e2, o)
                   /\ fpc' = "raised"
                   /\ UNCHANGED <<e1, e2, fresult>>
              [] OTHER ->
                   /\ ferr' = Propagated(o)
                   /\ fpc' = "raised"
                   /\ UNCHANGED <<e1, e2, fresult>>
    /\ lastReq' = Request(furl, 3)
    /\ UNCHANGED <<loginVars, furl, resolveVars>>

\* ----------------------------------------------- specification: _safe_get
LoginQuiescent ==
    /\ pc = "returned"
    /\ file = NoFile
    /\ nowStamp = 0
    /\ jar = {}
    /\ key = 0
    /\ srvKey = 0
    /\ genCount = 0
    /\ pollKey = 0
    /\ pollCount = 0
    /\ elapsed = 0
    /\ trace = <<>>
    /\ timeouts = 0
    /\ confirms = 0
    /\ lastResp = NoResp
    /\ result = NoResult
    /\ err = "none"
    /\ fileWrites = 0

FetchInit ==
    /\ LoginQuiescent
    /\ fpc = "tier1"
    /\ outs = <<>>
    /\ e1 = [kind |-> "none", msg |-> "none", body |-> "none"]
    /\ e2 = [kind |-> "none", msg |-> "none", body |-> "none"]
    /\ fresult = [tier |-> 0, body |-> "none"]
    /\ ferr = [kind |-> "none", msg |-> "none", parts |-> <<>>]
    /\ furl = "page"
    /\ lastReq = NoReq
    /\ ResolveIdle

FetchNext ==
    \/ Tier1
    \/ Tier2
    \/ Tier3

SpecFetch == FetchInit /\ [][FetchNext]_vars

\* ------------------------------------------------- utils.py: get_bv_info
\* re.search of the window.__playinfo__ marker, then json.loads of the blob
\* variant: a page without the marker is read as an empty manifest
ManifestOutcome_Lenient(page) ==
    CASE page.kind = "nomarker" -> "ok"
      [] page.kind = "badjson" -> "badjson"
      [] OTHER -> "ok"

ManifestOutcome(page) ==
    CASE page.kind = "nomarker" -> "notfound"
      [] page.kind = "badjson" -> "badjson"
      [] OTHER -> "ok"

\* variant: the last representation of the list is taken
FirstBaseUrl_Last(present, l) ==
    IF ~present \/ l.tag = "missing" THEN "None"
    ELSE IF l.items = <<>> THEN "IndexError"
    ELSE l.items[Len(l.items)]

\* dash.get(key, [{}])[0].get("baseUrl"): the default [{}] of a missing
\* section or list yields None, an empty list raises IndexError
FirstBaseUrl(present, l) ==
    IF ~present \/ l.tag = "missing" THEN "None"
    ELSE IF l.items = <<>> THEN "IndexError"
    ELSE l.items[1]

\* playinfo.get("data", {}).get("accept_quality", [])
AcceptQuality(page) == IF page.quals.tag = "missing" THEN <<>> ELSE page.quals.items

\* the dict get_bv_info returns, its two lambdas by the dict each returns
ResolvedMedia(b, t, v, a, q) ==
    [kind |-> "media", title |-> t, video_url |-> v, audio_url |-> a,
     accept_quality |-> q,
     get_video_infos |-> [bvid |-> b, title |-> t, video_url |-> v],
     get_audio_infos |-> [bvid |-> b, title |-> t, audio_url |-> a]]

\* except RequestException as e: raise RuntimeError(...) around _safe_get;
\* any other exception leaves get_bv_info as it is
Wrapped(e, what) == IF IsRequestException(e.kind) THEN what ELSE e.kind

\* a call of _safe_get(u): tier 1 is next
Call(u) ==
    /\ fpc' = "tier1"
    /\ furl' = u
    /\ outs' = <<>>
    /\ e1' = [kind |-> "none", msg |-> "none", body |-> "none"]
    /\ e2' = [kind |-> "none", msg |-> "none", body |-> "none"]
    /\ fresult' = [tier |-> 0, body |-> "none"]
    /\ ferr' = [kind |-> "none", msg |-> "none", parts |-> <<>>]
    /\ UNCHANGED lastReq

\* the activation of _safe_get is over
CallOver ==
    /\ fpc' = "idle"
    /\ furl' = "none"
    /\ outs' = <<>>
    /\ e1' = [kind |-> "none", msg |-> "none", body |-> "none"]
    /\ e2' = [kind |-> "none", msg |-> "none", body |-> "none"]
    /\ fresult' = [tier |-> 0, body |-> "none"]
    /\ ferr' = [kind |-> "none", msg |-> "none", parts |-> <<>>]
    /\ UNCHANGED lastReq

\* session.cookies.update({...}) and the call _safe_get(page_url)
ResolveStart ==
    /\ rpc = "idle"
    /\ jar' = JarUpdate(jar, [n \in NameSet |-> [value |-> creds[n]]], 1)
    /\ Call("page")
    /\ rpc' = "page"
    /\ UNCHANGED <<pc, file, nowStamp, key, srvKey, genCount, pollKey,
                   pollCount, elapsed, trace, timeouts, confirms, lastResp,
                   result, err, fileWrites>>
    /\ UNCHANGED <<bvid, creds, html, video_url, audio_url, qualities, title,
                   media, rerr, idsOut, viewResp>>

\* html = resp.text
PageDone ==
    /\ rpc = "page"
    /\ fpc = "returned"
    /\ \E p \in Pages : html' = p
    /\ rpc' = "extract"
    /\ CallOver
    /\ UNCHANGED loginVars
    /\ UNCHANGED <<bvid, creds, video_url, audio_url, qualities, title,
                   media, rerr, idsOut, viewResp>>

\* _safe_get(page_url) raised
PageFailed ==
    /\ rpc = "page"
    /\ fpc = "raised"
    /\ rerr' = Wrapped(ferr, "RuntimeError: page")
    /\ rpc' = "raised"
    /\ CallOver
    /\ UNCHANGED loginVars
    /\ UNCHANGED <<bvid, creds, html, video_url, audio_url, qualities, title,
                   media, idsOut, viewResp>>

\* re.search .. qualities = ..., then the call _safe_get(info_api); html and
\* playinfo are not read after these lines
ExtractPlayinfo ==
    /\ rpc = "extract"
    /\ LET mo == ManifestOutcome(html)
           v == FirstBaseUrl(html.dash, html.video)
           a == FirstBaseUrl(html.dash, html.audio)
       IN CASE mo = "notfound" ->
                 /\ rerr' = "RuntimeError: playinfo"
                 /\ rpc' = "raised"
                 /\ UNCHANGED <<video_url, audio_url, qualities>>
                 /\ UNCHANGED fetchVars
            [] mo = "badjson" ->
                 /\ rerr' = "JSONDecodeError"
                 /\ rpc' = "raised"
                 /\ UNCHANGED <<video_url, audio_url, qualities>>
                 /\ UNCHANGED fetchVars
            [] mo = "ok" /\ (v = "IndexError" \/ a = "IndexError") ->
                 /\ rerr' = "IndexError"
                 /\ rpc' = "raised"
                 /\ UNCHANGED <<video_url, audio_url, qualities>>
                 /\ UNCHANGED fetchVars
            [] OTHER ->
                 /\ video_url' = v
                 /\ audio_url' = a
                 /\ qualities' = AcceptQuality(html)
                 /\ rpc' = "title"
                 /\ Call("info")
                 /\ UNCHANGED rerr
    /\ html' = NoPage
    /\ UNCHANGED loginVars
    /\ UNCHANGED <<bvid, creds, title, media, idsOut, viewResp>>

Titles == {"T1", ""}

\* title = info_resp.json().get("data", {}).get("title", "") and the return;
\* a body that is not JSON raises from .json()
TitleDone ==
    /\ rpc = "title"
    /\ fpc = "returned"
    /\ \/ \E t \in Titles :
            /\ title' = t
            /\ media' = ResolvedMedia(bvid, t, video_url, audio_url, qualities)
            /\ rpc' = "returned"
            /\ UNCHANGED rerr
       \/ /\ \E x \in {"RuntimeError: info", "JSONDecodeError"} : rerr' = x
          /\ rpc' = "raised"
          /\ UNCHANGED <<title, media>>
    /\ CallOver
    /\ UNCHANGED loginVars
    /\ UNCHANGED <<bvid, creds, html, video_url, audio_url, qualities, idsOut, viewResp>>

\* variant: a failed title fetch falls back to the empty title
TitleFailed_Fallback ==
    /\ rpc = "title"
    /\ fpc = "raised"
    /\ title' = ""
    /\ media' = ResolvedMedia(bvid, "", video_url, audio_url, qualities)
    /\ rpc' = "returned"
    /\ CallOver
    /\ UNCHANGED loginVars
    /\ UNCHANGED <<bvid, creds, html, video_url, audio_url, qualities, rerr,
                   idsOut, viewResp>>

\* _safe_get(info_api) raised
TitleFailed ==
    /\ rpc = "title"
    /\ fpc = "raised"
    /\ rerr' = Wrapped(ferr, "RuntimeError: info")
    /\ rpc' = "raised"
    /\ CallOver
    /\ UNCHANGED loginVars
    /\ UNCHANGED <<bvid, creds, html, video_url, audio_url, qualities, title,
                   media, idsOut, viewResp>>

\* ------------------------------------------------- utils.py: get_aid_cid
\* the response of web-interface/view: an HTTP error status, or a JSON
\* object whose data is absent or an object with or without aid and cid
Aids == {"None", "170001"}
Cids == {"None", "279786"}
ViewResponse(s, d, a, c) == [status |-> s, data |-> d, aid |-> a, cid |-> c]
ViewResponses ==
    {ViewResponse("httperror", FALSE, "None", "None"),
     ViewResponse("ok", FALSE, "None", "None")}
    \cup {ViewResponse("ok", TRUE, a, c) : a \in Aids, c \in Cids}

Ids(s, a, c) == [st |-> s, aid |-> a, cid |-> c]

\* variant: the content id is checked before the video id
AidCid_CidFirst(r) ==
    IF r.status = "httperror" THEN Ids("HTTPError", "None", "None")
    ELSE LET aid == IF r.data THEN r.aid ELSE "None"
             cid == IF r.data THEN r.cid ELSE "None"
         IN IF cid = "None" THEN Ids("CidRetrievalError", "None", "None")
            ELSE IF aid = "None" THEN Ids("AidRetrievalError", "None", "None")
            ELSE Ids("ok", aid, cid)

\* raise_for_status, js.get("data", {}), then aid is tested before cid
AidCid(r) ==
    IF r.status = "httperror" THEN Ids("HTTPError", "None", "None")
    ELSE LET aid == IF r.data THEN r.aid ELSE "None"
             cid == IF r.data THEN r.cid ELSE "None"
         IN IF aid = "None" THEN Ids("AidRetrievalError", "None", "None")
            ELSE IF cid = "None" THEN Ids("CidRetrievalError", "None", "None")
            ELSE Ids("ok", aid, cid)

\* get_aid_cid(bvid): one plain requests.get outside the shared session
GetAidCid ==
    /\ rpc = "idle"
    /\ \E r \in ViewResponses :
         /\ viewResp' = r
         /\ idsOut' = AidCid(r)
    /\ rpc' = "ids"
    /\ UNCHANGED loginVars
    /\ UNCHANGED fetchVars
    /\ UNCHANGED <<bvid, creds, html, video_url, audio_url, qualities,
                   title, media, rerr>>

\* ------------------------------------------ specification: the resolver
\* the states login() leaves: the credentials it returned and the jar of
\* the shared session (cache hit; QR login; QR login whose cookies are of
\* another domain; QR login that set no SESSDATA)
ResolveInputs ==
    {[jar |-> {Cookie(n, "", "old", NoExpiry) : n \in NameSet},
      creds |-> [n \in NameSet |-> "old"]],
     [jar |-> {Cookie(n, PlatformDomain, "new", ExpiresAt(MaxStamp)) : n \in NameSet},
      creds |-> [n \in NameSet |-> "new"]],
     [jar |-> {Cookie(n, OtherDomain, "new", ExpiresAt(MaxStamp)) : n \in NameSet},
      creds |-> [n \in NameSet |-> "None"]],
     [jar |-> {Cookie(n, PlatformDomain, "new", NoExpiry) : n \in NameSet \ {"SESSDATA"}},
      creds |-> [n \in NameSet |-> IF n = "SESSDATA" THEN "None" ELSE "new"]]}

ResolveInit ==
    /\ pc = "returned"
    /\ file = NoFile
    /\ nowStamp = 0
    /\ key = 0
    /\ srvKey = 0
    /\ genCount = 0
    /\ pollKey = 0
    /\ pollCount = 0
    /\ elapsed = 0
    /\ trace = <<>>
    /\ timeouts = 0
    /\ confirms = 0
    /\ lastResp = NoResp
    /\ result = NoResult
    /\ err = "none"
    /\ fileWrites = 0
    /\ FetchIdle
    /\ \E i \in ResolveInputs : jar = i.jar /\ creds = i.creds
    /\ bvid \in Bvids
    /\ rpc = "idle"
    /\ html = NoPage
    /\ video_url = "None"
    /\ audio_url = "None"
    /\ qualities = <<>>
    /\ title = "none"
    /\ media = NoMedia
    /\ rerr = "none"
    /\ idsOut = NoIds
    /\ viewResp = NoView

ResolveNext ==
    \/ ResolveStart
    \/ Tier1
    \/ Tier2
    \/ Tier3
    \/ PageDone
    \/ PageFailed
    \/ ExtractPlayinfo
    \/ TitleDone
    \/ TitleFailed
    \/ GetAidCid

SpecResolve == ResolveInit /\ [][ResolveNext]_vars

\* ------------------------------------------------ properties: _safe_get
TierPc(i) == CASE i = 1 -> "tier1" [] i = 2 -> "tier2" [] OTHER -> "tier3"
FellThrough(i) == Len(outs) > i \/ fpc = TierPc(i + 1)
PropagatedAt(i) ==
    /\ Len(outs) = i
    /\ fpc = "raised"
    /\ ferr = [kind |-> outs[i].kind, msg |-> outs[i].msg, parts |-> <<>>]

\* C1 as stated: an exception of tier 1 or 2 that is neither a TLS, a
\* retry-exhaustion nor a generic network error (an HTTP error status of
\* raise_for_status in particular) propagates at once and no later tier is
\* attempted.
C1_HttpErrorPropagates ==
    \A i \in 1..Len(outs) :
        (i <= 2 /\ outs[i].kind \in {"http", "other", "base"}) => PropagatedAt(i)

\* C1 amended: at tier 1 or 2 an exception that is no SSLError, MaxRetryError
\* or RequestException propagates at once and no later tier is attempted; an
\* HTTP error status of raise_for_status is a RequestException and falls
\* through to the next tier like a network error.
C1_OnlyForeignExceptionsPropagate ==
    \A i \in 1..Len(outs) :
        /\ (i <= 2 /\ outs[i].kind \in {"other", "base"}) => PropagatedAt(i)
        /\ (i <= 2 /\ outs[i].kind = "http") => FellThrough(i)

C1_Witness ==
    /\ Len(outs) = 2
    /\ outs[1].kind = "http"
    /\ outs[2].kind = "other"
    /\ fpc = "raised"

\* C3: the tiers are attempted in the order 1, 2, 3; a tier is attempted only
\* after every earlier tier failed; the result is the response of the first
\* tier that succeeded; after TLS errors of tier 1 and tier 2 the third tier
\* is attempted and its response is the result.
C3_TiersInOrder ==
    /\ Len(outs) <= 3
    /\ \A i \in 1..Len(outs) : outs[i].tier = i
    /\ \A i \in 1..Len(outs) : i < Len(outs) => outs[i].kind # "ok"
    /\ \A i \in 1..Len(outs) : (i <= 2 /\ outs[i].kind = "ssl") => FellThrough(i)
    /\ \A i \in 1..Len(outs) :
          outs[i].kind = "ok" =>
             /\ fpc = "returned"
             /\ fresult = [tier |-> i, body |-> outs[i].body]
    /\ fpc = "returned" => (Len(outs) >= 1 /\ outs[Len(outs)].kind = "ok")

C3_Witness ==
    /\ Len(outs) = 3
    /\ outs[1].kind = "ssl"
    /\ outs[2].kind = "ssl"
    /\ outs[3].kind = "ok"
    /\ fpc = "returned"
    /\ fresult = [tier |-> 3, body |-> outs[3].body]

\* C4: when all three tiers failed, one RuntimeError is raised whose message
\* holds the message of tier 1 under label 1, of tier 2 under label 2 and of
\* tier 3 under label 3.
C4_AggregateKeepsAllThree ==
    (Len(outs) = 3 /\ outs[3].kind \in ExcKinds \ {"base"}) =>
        /\ fpc = "raised"
        /\ ferr.kind = "RuntimeError"
        /\ Len(ferr.parts) = 3
        /\ \A i \in 1..3 : ferr.parts[i] = [label |-> i, msg |-> outs[i].msg]

C4_Witness ==
    /\ Len(outs) = 3
    /\ fpc = "raised"
    /\ ferr.kind = "RuntimeError"
    /\ outs[1].msg # outs[2].msg
    /\ outs[3].kind = "http"

\* ---------------------------------------------------- properties: login
Script == <<NOT_SCANNED, NOT_SCANNED, SCANNED, QR_OK>>
IsPrefix(a, b) == Len(a) <= Len(b) /\ \A i \in 1..Len(a) : a[i] = b[i]
IsFatalResp(r) ==
    \/ r.kind = "apperr"
    \/ r.kind = "qr" /\ r.code # 0
    \/ r.kind = "ok" /\ (r.code # 0 \/ r.status \notin {NOT_SCANNED, SCANNED, QR_EXPIRED, QR_OK})
IsCredentialSet(f) ==
    /\ f.kind = "json"
    /\ \A n \in NameSet : f.data[n].tag = "ok" /\ f.data[n].expires.tag \in {"none", "at"}

\* C2 as stated: the second LoginTimeoutError of a run is surfaced to the
\* caller, so a run has at most two timed-out windows.
C2_SecondTimeoutSurfaces ==
    timeouts >= 2 => (pc = "raised" /\ err = "TimeoutError")

\* C2 amended: every LoginTimeoutError, the first like any later one, makes
\* the driver restart from REQUESTING; no timeout is surfaced to the caller.
C2_TimeoutAlwaysRestarts ==
    [][timeouts' # timeouts =>
          (timeouts' = timeouts + 1 /\ pc' = "REQUESTING" /\ err' = "none")]_vars

C2_Witness ==
    /\ timeouts >= 3
    /\ pc = "REQUESTING"

\* C5: in a window whose polls answer 86101, 86101, 86090, 0 within the
\* timeout the machine keeps polling after each of the first three answers,
\* follows the confirmation URL once on the fourth, issues no poll after it
\* and leaves the poll loop successfully.
C5_ScriptedWindowConfirms ==
    /\ (trace = Script) =>
          /\ pollCount = Len(Script)
          /\ confirms = 1
          /\ [i \in 1..Len(trace) |-> StateOf(trace[i])] =
                <<"AWAITING_SCAN", "AWAITING_SCAN", "SCANNED_PENDING_CONFIRM", "CONFIRMED">>
          /\ err = "none" => (pc = "returned" /\ fileWrites = 1)
          /\ err # "none" => (pc = "exited" /\ err = "RequestException")
    /\ (IsPrefix(trace, Script) /\ Len(trace) \in 1..3 /\ elapsed < Timeout /\ err = "none" /\ pollCount = Len(trace)) =>
          (pc = "polling" /\ confirms = 0)

C5_Witness ==
    /\ trace = Script
    /\ pc = "returned"
    /\ confirms = 1
    /\ fileWrites = 1

\* C6: after a poll answered 86038 the driver is back in REQUESTING (the
\* expired key is not polled again), and every poll carries the key of the
\* most recent generate call.
C6_ExpiredRestartsWithFreshKey ==
    /\ (lastResp = Status(QR_EXPIRED)) => (pc = "REQUESTING" /\ err = "none")
    /\ (pc = "polling" \/ pollCount > 0) => (pollKey = srvKey /\ key = srvKey)

C6_Witness ==
    /\ genCount = 2
    /\ timeouts = 0
    /\ pollCount > 0
    /\ pollKey = 2

\* C7: a poll that leaves the machine in AWAITING_SCAN or
\* SCANNED_PENDING_CONFIRM with elapsed >= timeout raises the timeout error
\* once and ends the window: no poll follows in that window.
C7_TimeoutEndsWindow ==
    [][(pollCount' = pollCount + 1 /\ lastResp'.kind = "ok"
          /\ lastResp'.status \in {NOT_SCANNED, SCANNED} /\ elapsed' >= Timeout) =>
             (timeouts' = timeouts + 1 /\ pc' # "polling")]_vars

C7_Witness ==
    /\ timeouts = 1
    /\ elapsed = Timeout
    /\ lastResp = Status(SCANNED)
    /\ pc = "REQUESTING"

\* C8: an unknown poll status or a non-zero top-level code of the generate or
\* poll endpoint aborts login: no generate or poll request follows and the
\* credential file is not written.
C8_FatalAborts ==
    [][/\ IsFatalResp(lastResp') =>
             (pc' \in {"raised", "exited"} /\ err' = "RuntimeError"
                /\ file' = file /\ fileWrites' = 0)
       /\ IsFatalResp(lastResp) =>
             UNCHANGED <<genCount, pollCount, file, fileWrites>>]_vars

C8_Witness ==
    /\ pc = "exited"
    /\ lastResp.kind = "ok"
    /\ lastResp.status \in UnknownStatuses
    /\ genCount = 2
    /\ fileWrites = 0

\* C9: a persisted CredentialSet whose present expiries all lie after now is
\* injected into the cookie jar and returned without any generate or poll
\* request; one with a present expiry before now is not used and the QR
\* login starts.
C9_UsableIffNoPresentExpiryPassed ==
    [][(pc = "start" /\ IsCredentialSet(file)) =>
          /\ (\A n \in NameSet : file.data[n].expires.tag = "at" => file.data[n].expires.at > nowStamp) =>
                /\ pc' = "returned"
                /\ result' = file
                /\ file' = file
                /\ genCount' = 0 /\ pollCount' = 0
                /\ \A n \in NameSet :
                      IF file.data[n].value = "None"
                      THEN ~\E c \in jar' : c.name = n
                      ELSE \E c \in jar' : c.name = n /\ c.value = file.data[n].value
          /\ (\E n \in NameSet : file.data[n].expires.tag = "at" /\ file.data[n].expires.at < nowStamp) =>
                /\ pc' = "REQUESTING"
                /\ jar' = jar
                /\ result' = NoResult]_vars

C9_Witness ==
    /\ pc = "returned"
    /\ genCount = 0
    /\ result = file
    /\ \E n \in NameSet : file.data[n].expires.tag = "at"
    /\ \E n \in NameSet : file.data[n].expires.tag = "none" /\ file.data[n].value = "old"
    /\ \E c \in jar : c.value = "old"

\* C10: a missing credential file is no error and leads to the QR flow; an
\* unparseable one raises to the caller: no QR login starts and the file is
\* not overwritten.
C10_MissingIsAbsentCorruptIsFatal ==
    /\ file.kind = "corrupt" =>
          /\ pc \in {"start", "raised"}
          /\ pc = "raised" => err = "JSONDecodeError"
          /\ genCount = 0 /\ fileWrites = 0
    /\ file.kind = "absent" =>
          /\ err # "JSONDecodeError"
          /\ fileWrites = 0
          /\ pc # "start" => (pc = "REQUESTING" \/ genCount > 0)
    /\ err = "JSONDecodeError" => fileWrites = 0

C10_Witness ==
    /\ file.kind = "corrupt"
    /\ pc = "raised"
    /\ err = "JSONDecodeError"

\* C13: the credential file changes only in the step in which a poll
\* answered 0, and is then replaced by exactly the three fields extracted
\* from the cookie jar; a cache hit, an expired or timed-out window and a
\* fatal abort leave it as it was.
C13_FileWrittenOnlyOnConfirm ==
    [][(file' # file \/ fileWrites' # fileWrites) =>
          /\ lastResp' = Status(QR_OK)
          /\ pollCount' = pollCount + 1
          /\ pc' = "returned"
          /\ fileWrites' = fileWrites + 1
          /\ file'.kind = "json"
          /\ DOMAIN file'.data = NameSet
          /\ \A n \in NameSet :
                /\ file'.data[n].tag = "ok"
                /\ IF \E c \in jar' : c.name = n /\ c.domain = PlatformDomain
                   THEN \E c \in jar' : /\ c.name = n /\ c.domain = PlatformDomain
                                        /\ file'.data[n].value = c.value
                                        /\ file'.data[n].expires = c.expires
                   ELSE file'.data[n].value = "None"]_vars

C13_Witness ==
    /\ pc = "returned"
    /\ fileWrites = 1
    /\ genCount = 3
    /\ timeouts = 1
    /\ \A n \in NameSet : file.data[n].value = "new"

\* C17: a login that went through the QR flow persists and returns a
\* CredentialSet whose three values are all present.
C17_QrLoginYieldsAllValues ==
    (pc = "returned" /\ fileWrites = 1) =>
        /\ file = result
        /\ \A n \in NameSet : result.data[n].value # "None"

\* C18: a CredentialSet returned from the cache has no absent value: a
\* persisted set with an absent value is not accepted as usable.
C18_CacheRejectsAbsentValue ==
    (pc = "returned" /\ fileWrites = 0) =>
        \A n \in NameSet : result.data[n].value # "None"

\* C20: a file that parses as JSON but lacks a credential field or holds an
\* expiry that cannot be parsed is an unusable cache: login() raises nothing,
\* goes on to the QR flow, and a confirmed login overwrites the file.
C20_InvalidStructureMeansQrLogin ==
    [][/\ (pc = "start" /\ file.kind = "json"
             /\ \E n \in NameSet : file.data[n].tag = "missing" \/ file.data[n].expires.tag = "bad") =>
             (pc' = "REQUESTING" /\ err' = "none" /\ file' = file /\ jar' = jar)
       /\ (pollCount' = pollCount + 1 /\ lastResp' = Status(QR_OK) /\ err' = "none") =>
             /\ fileWrites' = 1
             /\ \A n \in NameSet : file'.data[n].tag = "ok" /\ file'.data[n].expires.tag # "bad"]_vars

C20_Witness ==
    /\ pc = "REQUESTING"
    /\ genCount = 0
    /\ err = "none"
    /\ file.kind = "json"
    /\ \E n \in NameSet : file.data[n].expires.tag = "bad"

\* ------------------------------------------------ properties: get_bv_info
\* C11: when the fetched page body holds no window.__playinfo__ marker,
\* get_bv_info raises the manifest-not-found RuntimeError, returns nothing,
\* and sends no request from then on: the title fetch is never started.
C11_NoMarkerFailsWithoutFurtherCall ==
    [][/\ (rpc = "extract" /\ html.kind = "nomarker") =>
            /\ rpc' = "raised"
            /\ rerr' = "RuntimeError: playinfo"
            /\ media' = NoMedia
            /\ fpc' = "idle"
            /\ lastReq' = lastReq
       /\ rerr = "RuntimeError: playinfo" =>
            /\ lastReq' = lastReq
            /\ lastReq.url = "page"
            /\ fpc' = "idle"
            /\ rpc' = "raised"]_vars

C11_Witness ==
    /\ rpc = "raised"
    /\ rerr = "RuntimeError: playinfo"
    /\ lastReq.url = "page"
    /\ lastReq.tier = 2
    /\ media = NoMedia

\* C12: for a manifest whose dash section lists at least one video and one
\* audio representation, get_bv_info takes the baseUrl of index 0 of each
\* list, whatever the other entries and the quality list are, keeps
\* accept_quality as it is and in its order, and the dict it returns holds
\* these values; get_video_infos and get_audio_infos give exactly
\* (bvid, title, that same URL).
C12_IndexZeroAndQualitiesUnchanged ==
    [][/\ (/\ rpc = "extract"
           /\ html.kind = "ok"
           /\ html.dash
           /\ html.video.tag = "list" /\ Len(html.video.items) >= 1
           /\ html.audio.tag = "list" /\ Len(html.audio.items) >= 1) =>
            /\ rpc' = "title"
            /\ video_url' = html.video.items[1]
            /\ audio_url' = html.audio.items[1]
            /\ html.quals.tag = "list" => qualities' = html.quals.items
            /\ html.quals.tag = "missing" => qualities' = <<>>
       /\ (rpc = "title" /\ rpc' = "returned") =>
            /\ media'.kind = "media"
            /\ media'.title = title'
            /\ media'.video_url = video_url
            /\ media'.audio_url = audio_url
            /\ media'.accept_quality = qualities
            /\ media'.get_video_infos =
                 [bvid |-> bvid, title |-> title', video_url |-> video_url]
            /\ media'.get_audio_infos =
                 [bvid |-> bvid, title |-> title', audio_url |-> audio_url]
       /\ rpc \in {"title", "returned"} =>
            /\ video_url' = video_url
            /\ audio_url' = audio_url
            /\ qualities' = qualities
            /\ bvid' = bvid]_vars

C12_Witness ==
    /\ rpc = "returned"
    /\ media.video_url = "V2"
    /\ media.audio_url = "A1"
    /\ media.accept_quality = <<64, 120>>
    /\ media.get_video_infos.video_url = "V2"
    /\ media.get_audio_infos.audio_url = "A1"
    /\ media.title = "T1"

\* C14: when _safe_get fails for the metadata endpoint (all three tiers
\* failed, or a tier let its exception through), get_bv_info fails and
\* returns no dict, although the page fetch and the extraction of the stream
\* URLs succeeded; the first request to the metadata endpoint is sent only
\* after the manifest was extracted.
C14_TitleFailureFailsResolution ==
    [][/\ (rpc = "title" /\ fpc = "raised") =>
            /\ rpc' = "raised"
            /\ rerr' = (IF ferr.kind \in {"ssl", "reqexc", "http"}
                        THEN "RuntimeError: info" ELSE ferr.kind)
            /\ media' = NoMedia
       /\ rpc = "raised" => (rpc' = "raised" /\ media' = NoMedia)
       /\ (furl' = "info" /\ furl # "info") =>
            /\ rpc = "extract"
            /\ html.kind = "ok"
            /\ lastReq.url = "page"
       /\ lastReq'.url = "info" => rpc = "title"]_vars

C14_Witness ==
    /\ rpc = "raised"
    /\ rerr = "RuntimeError"
    /\ lastReq.url = "info"
    /\ lastReq.tier = 3
    /\ video_url = "V1"
    /\ audio_url = "A1"
    /\ media = NoMedia

\* ------------------------------------------------ properties: get_aid_cid
\* C15: for a parsed response of the metadata endpoint (a JSON object whose
\* data is absent or an object), get_aid_cid raises AidRetrievalError when
\* aid is missing, also when cid is missing too, raises CidRetrievalError
\* when aid is there and cid is missing, and returns (aid, cid) exactly when
\* both are there.
C15_AidCheckedBeforeCid ==
    (rpc = "ids" /\ viewResp.status = "ok") =>
        LET hasAid == viewResp.data /\ viewResp.aid # "None"
            hasCid == viewResp.data /\ viewResp.cid # "None"
        IN /\ ~hasAid => idsOut = [st |-> "AidRetrievalError", aid |-> "None", cid |-> "None"]
           /\ (hasAid /\ ~hasCid) =>
                 idsOut = [st |-> "CidRetrievalError", aid |-> "None", cid |-> "None"]
           /\ (hasAid /\ hasCid) =>
                 idsOut = [st |-> "ok", aid |-> viewResp.aid, cid |-> viewResp.cid]
           /\ idsOut.st = "ok" => (hasAid /\ hasCid)

C15_Witness ==
    /\ rpc = "ids"
    /\ viewResp = [status |-> "ok", data |-> TRUE, aid |-> "None", cid |-> "None"]
    /\ idsOut.st = "AidRetrievalError"

\* ------------------------------------- properties: the clients of the tiers
\* C16: a request of tier 3 is sent by a fresh client that has the headers of
\* the shared session and nothing else of it: no cookie of the shared jar
\* and no retry policy, so the page and the metadata are requested without
\* the injected credentials; a request of tier 1 or 2 is sent by the shared
\* session, with its retry policy and with every credential get_bv_info was
\* given a value for.
C16_FreshClientCarriesNoCredentials ==
    /\ lastReq.tier = 3 =>
         /\ lastReq.client = "fresh"
         /\ lastReq.headers = "shared"
         /\ lastReq.cookies = {}
         /\ lastReq.retries = 0
         /\ ~lastReq.verify
    /\ (lastReq.tier \in {1, 2} /\ rpc # "idle") =>
         /\ lastReq.client = "shared"
         /\ lastReq.retries = RetryTotal
         /\ \A n \in NameSet :
              creds[n] # "None" =>
                 [name |-> n, value |-> creds[n]] \in lastReq.cookies

C16_Witness ==
    /\ rpc = "page"
    /\ lastReq.tier = 3
    /\ lastReq.url = "page"
    /\ lastReq.cookies = {}
    /\ \A n \in NameSet :
         /\ creds[n] = "new"
         /\ Cookie(n, "", "new", NoExpiry) \in jar
         /\ Cookie(n, PlatformDomain, "new", ExpiresAt(MaxStamp)) \in jar

\* C19 as stated: every dict a successful get_bv_info returns has a
\* video_url and an audio_url that are not None; a manifest without dash
\* section, or without video or audio list, makes it fail instead.
C19_ReturnedUrlsPresent ==
    rpc = "returned" =>
        /\ media.video_url # "None"
        /\ media.audio_url # "None"
        /\ media.get_video_infos.video_url # "None"
        /\ media.get_audio_infos.audio_url # "None"
====
